---- MODULE Spec2Model ----
(***************************************************************************)
(* A model of telegram_claude_bot.py: the handlers of one BotInstance, the *)
(* per-conversation locks, the session store, call_claude_with_retry and   *)
(* call_claude, the line framing of call_claude's read loop, and           *)
(* send_long_message with _retry_on_network_error.                         *)
(*                                                                         *)
(* Scheduling is one asyncio event loop: a step of the model is the code a *)
(* coroutine runs between two suspensions (awaits), so each action is one  *)
(* such segment.  Handlers of different updates are taken to interleave at *)
(* their awaits.                                                           *)
(***************************************************************************)
EXTENDS Integers, Sequences, FiniteSets, TLC

\* ------------------------------------------------------------------ bounds
\* Handler runs that can be in progress at once.
NumTasks == 2
\* Lines of process output one invocation reads (specification SpecInvoke).
MaxLines == 2
\* Bytes of process output (specification SpecFramer).
MaxStream == 5
\* Largest number of bytes one read returns (specification SpecFramer).
MaxRead == 2
\* Chunks of one delivered text (specification SpecSend).
MaxChunks == 2

\* The monotonic clock runs from 0 to MaxClock seconds.
MaxClock == 18

\* tool_use blocks of one invocation.
MaxBlocks == 3

\* The monotonic clock of an invocation with a deadline runs from 0 to MaxNow.
MaxNow == 4

\* Texts given to _split_text have at most MaxText characters.
MaxText == 7

\* The transport's maximum message length (4096 in the program), scaled down.
MAX_MSG_LEN == 4

Tasks == 1..NumTasks
\* Conversation ids (update.effective_chat.id).
Chats == {"A", "B"}
\* Session ids the agent process can report.
SessionIds == {"s1", "s2"}
\* Python's None (also JSON null).
None == "None"
\* A key that a decoded record does not have.
NoField == "NoField"

\* ------------------------------------------------------------------- texts
\* Texts are sequences of words, so that a prefix test is a real prefix test.
TimeoutText == <<"Claude", "timed", "out", "after">>
ErrorText == <<"Claude", "error", "(exit", "code">>
EmptyText == <<"Claude", "returned", "an", "empty", "response.">>
ClaudeErrorPrefix == <<"Claude", "error">>
\* The result texts the agent process may report in a result record.
ResultTexts == {<<>>, <<"Hi", "there">>, <<"Claude", "error", "codes", "explained">>}

StartsWith(text, prefix) ==
    /\ Len(text) >= Len(prefix)
    /\ SubSeq(text, 1, Len(prefix)) = prefix

\* --------------------------------------------------------------- variables
VARIABLES
    sessions,        \* the sessions file: conversation id -> session id, None when absent
    chat_locks,      \* BotInstance._chat_locks: conversation id -> lock object (0: no entry)
    locks,           \* the asyncio.Lock objects made for each conversation, by locked flag
    pc,              \* where each handler run is suspended
    chat,            \* the conversation of each handler run
    lock,            \* the lock object a handler run holds (0: none)
    session_id,      \* call_claude's session_id argument
    attempt,         \* 0: call_claude called directly; 1, 2: by call_claude_with_retry
    has_chat,        \* call_claude's chat argument is not None
    typing_task,     \* the heartbeat task of the invocation
    result,          \* the text the invocation returned
    new_session_id,  \* the session id a direct call of call_claude returned
    calls,           \* history: the invocations of the controller run in progress
    observed,        \* history: the lines the last read loop handed to _process_line
    reset,           \* history: conversation -> /new acknowledged, nothing accepted since
    fr,              \* the state of the line framer (SpecFramer)
    sd,              \* the state of send_long_message (SpecSend)
    th,              \* the status notices of one invocation (SpecThrottle)
    tx,              \* the state of _split_text and of the rendering (SpecSplit)
    fs,              \* the sessions file and its temporary file (SpecStore)
    px               \* the agent process and the deadline (SpecDeadline)

taskVars == <<pc, chat, lock, session_id, attempt, has_chat, typing_task, result,
              new_session_id>>
botVars == <<sessions, chat_locks, locks>>
vars == <<sessions, chat_locks, locks, pc, chat, lock, session_id, attempt, has_chat,
          typing_task, result, new_session_id, calls, observed, reset,
          fr, sd, th, tx, fs, px>>

\* ------------------------------------------------------------ session store
\* load_sessions + sessions.get(str(chat_id)).
get_session_id(c) == sessions[c]

\* Variant: the session id is stored for every conversation.
set_session_id_all(store, c, sid) == [x \in Chats |-> sid]

\* load_sessions, sessions[str(chat_id)] = session_id, save_sessions.
set_session_id(store, c, sid) == [store EXCEPT ![c] = sid]

\* Variant: clearing one conversation's record clears the whole store.
clear_session_all(store, c) == [d \in Chats |-> None]

\* Variant: the record is left in place.
clear_session_keeps(store, c) == store

\* load_sessions, sessions.pop(str(chat_id), None), save_sessions.
clear_session(store, c) == [store EXCEPT ![c] = None]

\* Python truthiness of a session id (None and "" are false).
Truthy(sid) == sid # None

\* ------------------------------------------------------- conversation locks
\* locks[c] lists the asyncio.Lock objects made for conversation c, each by its
\* locked flag; chat_locks[c] is the one registered in _chat_locks (0: none yet).

\* Variant: a new lock object at every call.
get_chat_lock_uncached(c) == Len(locks[c]) + 1

\* The lock object of conversation c: the registered one, or a new one.
get_chat_lock(c) ==
    IF chat_locks[c] = 0 THEN Len(locks[c]) + 1 ELSE chat_locks[c]

\* Variant: the lock is never seen as held.
IsLockedNever(c, l) == FALSE

\* lock.locked()
IsLocked(c, l) == l <= Len(locks[c]) /\ locks[c][l]

\* The lock objects after get_chat_lock returned l and the caller acquired it or not.
LocksAfter(c, l, acquire) ==
    IF l > Len(locks[c]) THEN [locks EXCEPT ![c] = Append(@, acquire)]
    ELSE IF acquire THEN [locks EXCEPT ![c][l] = TRUE] ELSE locks

\* Variant: leaving the block does not release the lock.
ReleasedNever(t) == locks

\* async with lock: __aexit__ releases the lock the run holds.
Released(t) ==
    IF lock[t] = 0 THEN locks ELSE [locks EXCEPT ![chat[t]][lock[t]] = FALSE]

\* ------------------------------------------------------ the event classifier
\* One line of process output, as _process_line sees it:
\*   blank        nothing left after strip()
\*   notjson      json.loads raises JSONDecodeError
\*   undecodable  raw.decode() raises UnicodeDecodeError
\*   nonobject    valid JSON that is no object: data.get raises AttributeError
\*   record       a JSON object with a type, maybe a session_id, maybe a result
RecordLines ==
    [line : {"record"}, type : {"assistant", "other"},
     sid : {NoField} \cup SessionIds, result : {<<>>}]
    \cup
    [line : {"record"}, type : {"result"},
     sid : {NoField} \cup SessionIds, result : ResultTexts]

OtherLine(k) == [line |-> k, type |-> NoField, sid |-> NoField, result |-> <<>>]

Lines ==
    RecordLines \cup
    {OtherLine("blank"), OtherLine("notjson"), OtherLine("undecodable"),
     OtherLine("nonobject")}

\* _process_line on the nonlocal state st = [sid, result, raised].
ProcessLine(st, ln) ==
    CASE ln.line \in {"blank", "notjson"} -> st
      [] ln.line \in {"undecodable", "nonobject"} -> [st EXCEPT !.raised = TRUE]
      [] OTHER ->
           [st EXCEPT !.sid = IF ln.sid # NoField THEN ln.sid ELSE @,
                      !.result = IF ln.type = "result" THEN ln.result ELSE @]

\* The read loop's calls of _process_line, in order, up to the first that raises.
RECURSIVE ProcessLines(_, _)
ProcessLines(st, stream) ==
    IF stream = <<>> \/ st.raised THEN st
    ELSE ProcessLines(ProcessLine(st, Head(stream)), Tail(stream))

\* ------------------------------------------------------------- call_claude
\* How the process ends for the read loop: EOF and an exit code, or the deadline.
Endings ==
    {[how |-> "eof", rc |-> 0], [how |-> "eof", rc |-> 1], [how |-> "timeout", rc |-> -9]}

\* The finally block: cancel the heartbeat task and await it.
StopTypingOnFallThrough(task, how) ==
    IF how = "eof" /\ task # "none" THEN "done" ELSE task

StopTyping(task, how) ==
    IF task = "none" THEN "none" ELSE "done"

\* The session id of a timeout outcome: the session_id argument.
TimeoutSession(sid, latest) == sid

\* The session id of an agent-error outcome: the session_id argument.
ErrorSession(sid, latest) == sid

\* call_claude from the first read to its return or raise, for the session_id
\* argument sid, the heartbeat task's state, the lines read and the ending:
\*   exc     it raised (from _process_line, or from awaiting a failed heartbeat)
\*   result  the text returned
\*   sid     the session id returned
\*   typing  the heartbeat task afterwards
\*   how     "raise", "timeout" or "eof";  rc: the exit code seen
CallClaude(sid, task, stream, end) ==
    LET st == ProcessLines([sid |-> sid, result |-> <<>>, raised |-> FALSE], stream)
        how == IF st.raised THEN "raise" ELSE end.how
        typing == StopTyping(task, how)
        exc == st.raised \/ (task = "failed" /\ typing = "done")
    IN  [exc |-> exc,
         how |-> how,
         rc |-> IF st.raised THEN -1 ELSE end.rc,
         typing |-> typing,
         result |->
            IF exc THEN <<>>
            ELSE IF how = "timeout" THEN TimeoutText
            ELSE IF end.rc # 0 THEN ErrorText
            ELSE IF st.result = <<>> THEN EmptyText
            ELSE st.result,
         sid |->
            IF exc THEN None
            ELSE IF how = "timeout" THEN TimeoutSession(sid, st.sid)
            ELSE IF end.rc # 0 THEN ErrorSession(sid, st.sid)
            ELSE st.sid]

\* The kind of an outcome of call_claude.
Kind(out) ==
    IF out.exc THEN "raised"
    ELSE IF out.how = "timeout" THEN "timeout"
    ELSE IF out.rc # 0 THEN "error"
    ELSE IF out.result = EmptyText THEN "empty"
    ELSE "success"

\* --------------------------------------------------------- handler actions
\* The streams of lines a read loop sees in the specifications with several
\* handler runs: no line, one result record, or one line that raises.
ShortStreams ==
    {<<>>, <<OtherLine("undecodable")>>}
    \cup {<<ln>> : ln \in {r \in RecordLines : r.type = "result"}}

\* The start of call_claude_with_retry and of call_claude, up to the await of
\* create_subprocess_exec.
StartRetry(t, c) ==
    /\ session_id' = [session_id EXCEPT ![t] = get_session_id(c)]
    /\ attempt' = [attempt EXCEPT ![t] = 1]
    /\ has_chat' = [has_chat EXCEPT ![t] = TRUE]
    /\ pc' = [pc EXCEPT ![t] = "spawn"]

\* The lock check of the four handlers that invoke the agent: reply at once when
\* the conversation's lock is held, else take it (acquire() of a free lock does
\* not suspend).  next is what follows under the lock.
TryLock(t, c, next) ==
    LET l == get_chat_lock(c) IN
    /\ pc[t] = "idle"
    /\ chat' = [chat EXCEPT ![t] = c]
    /\ chat_locks' = [chat_locks EXCEPT ![c] = l]
    /\ IF IsLocked(c, l)
       THEN /\ locks' = LocksAfter(c, l, FALSE)
            /\ pc' = [pc EXCEPT ![t] = "reply_busy"]
            /\ UNCHANGED <<lock, session_id, attempt, has_chat>>
       ELSE /\ locks' = LocksAfter(c, l, TRUE)
            /\ lock' = [lock EXCEPT ![t] = l]
            /\ next

\* handle_message for an update of conversation c.
HandleMessage(t, c) ==
    /\ TryLock(t, c, StartRetry(t, c))
    /\ UNCHANGED <<sessions, typing_task, result, new_session_id, fr, sd, th, tx, fs, px>>

\* handle_claude_command: the same after the command text is rewritten.
HandleClaudeCommand(t, c) ==
    /\ TryLock(t, c, StartRetry(t, c))
    /\ UNCHANGED <<sessions, typing_task, result, new_session_id, fr, sd, th, tx, fs, px>>

\* Under the lock, a file handler first awaits get_file.
StartDownload(t) ==
    /\ pc' = [pc EXCEPT ![t] = "get_file"]
    /\ UNCHANGED <<session_id, attempt, has_chat>>

\* handle_document.
HandleDocument(t, c) ==
    /\ TryLock(t, c, StartDownload(t))
    /\ UNCHANGED <<sessions, typing_task, result, new_session_id, fr, sd, th, tx, fs, px>>

\* handle_photo.
HandlePhoto(t, c) ==
    /\ TryLock(t, c, StartDownload(t))
    /\ UNCHANGED <<sessions, typing_task, result, new_session_id, fr, sd, th, tx, fs, px>>

\* An exception leaves the handler: async with releases the lock, and the
\* application's error_handler runs.  (A direct caller of call_claude, which has
\* no conversation, gets the exception itself.)
Raise(t) ==
    /\ pc' = [pc EXCEPT ![t] = IF chat[t] = None THEN "api_raised" ELSE "error_handler"]
    /\ locks' = Released(t)
    /\ lock' = [lock EXCEPT ![t] = 0]
    /\ session_id' = [session_id EXCEPT ![t] = None]
    /\ attempt' = [attempt EXCEPT ![t] = 0]
    /\ has_chat' = [has_chat EXCEPT ![t] = FALSE]
    /\ result' = [result EXCEPT ![t] = <<>>]

\* await doc.get_file() / photo.get_file() returns or raises.
GetFile(t, ok) ==
    /\ pc[t] = "get_file"
    /\ IF ok
       THEN /\ pc' = [pc EXCEPT ![t] = "download"]
            /\ UNCHANGED <<locks, lock, session_id, attempt, has_chat, result>>
       ELSE Raise(t)
    /\ UNCHANGED <<sessions, chat_locks, chat, typing_task, new_session_id, fr, sd, th, tx, fs, px>>

\* await file.download_to_drive() returns or raises; then the prompt is built
\* and call_claude_with_retry starts.
Download(t, ok) ==
    /\ pc[t] = "download"
    /\ IF ok
       THEN /\ StartRetry(t, chat[t])
            /\ UNCHANGED <<locks, lock, result>>
       ELSE Raise(t)
    /\ UNCHANGED <<sessions, chat_locks, chat, typing_task, new_session_id, fr, sd, th, tx, fs, px>>

\* cmd_new: clear the session, then await the acknowledgement.
CmdNew(t, c) ==
    /\ pc[t] = "idle"
    /\ sessions' = clear_session(sessions, c)
    /\ pc' = [pc EXCEPT ![t] = "reply_new"]
    /\ chat' = [chat EXCEPT ![t] = c]
    /\ UNCHANGED <<chat_locks, locks, lock, session_id, attempt, has_chat, typing_task,
                   result, new_session_id, fr, sd, th, tx, fs, px>>

\* cmd_session, cmd_start and the unauthorized branch of _authorized: a reply
\* and nothing else.
CmdReply(t, c) ==
    /\ pc[t] = "idle"
    /\ pc' = [pc EXCEPT ![t] = "reply"]
    /\ chat' = [chat EXCEPT ![t] = c]
    /\ UNCHANGED <<sessions, chat_locks, locks, lock, session_id, attempt, has_chat,
                   typing_task, result, new_session_id, fr, sd, th, tx, fs, px>>

\* The handler run is over: its task slot is free again.
Finish(t) ==
    /\ pc' = [pc EXCEPT ![t] = "idle"]
    /\ chat' = [chat EXCEPT ![t] = None]
    /\ lock' = [lock EXCEPT ![t] = 0]
    /\ session_id' = [session_id EXCEPT ![t] = None]
    /\ attempt' = [attempt EXCEPT ![t] = 0]
    /\ has_chat' = [has_chat EXCEPT ![t] = FALSE]
    /\ typing_task' = [typing_task EXCEPT ![t] = "none"]
    /\ result' = [result EXCEPT ![t] = <<>>]
    /\ new_session_id' = [new_session_id EXCEPT ![t] = None]

\* await update.message.reply_text(...) outside the lock returns or raises.
Reply(t, ok) ==
    /\ pc[t] \in {"reply_busy", "reply_new", "reply"}
    /\ IF ok
       THEN Finish(t) /\ UNCHANGED locks
       ELSE Raise(t) /\ UNCHANGED <<chat, typing_task, new_session_id>>
    /\ UNCHANGED <<sessions, chat_locks, fr, sd, th, tx, fs, px>>

\* error_handler: its reply is sent, or fails and is swallowed.
ErrorHandler(t) ==
    /\ pc[t] = "error_handler"
    /\ Finish(t)
    /\ UNCHANGED <<sessions, chat_locks, locks, fr, sd, th, tx, fs, px>>

\* ------------------------------------------------------ invocation actions
\* await create_subprocess_exec returns or raises; after it the heartbeat task
\* is created when a chat was given, and the deadline is set.
Spawn(t, ok) ==
    /\ pc[t] = "spawn"
    /\ IF ok
       THEN /\ pc' = [pc EXCEPT ![t] = "read"]
            /\ typing_task' = [typing_task EXCEPT ![t] =
                                  IF has_chat[t] THEN "running" ELSE "none"]
            /\ UNCHANGED <<locks, lock, session_id, attempt, has_chat, result>>
       ELSE /\ Raise(t)
            /\ UNCHANGED typing_task
    /\ UNCHANGED <<sessions, chat_locks, chat, new_session_id, fr, sd, th, tx, fs, px>>

\* send_typing_loop: one chat.send_action("typing"); an error ends the task.
SendTypingLoop(t, ok) ==
    /\ typing_task[t] = "running"
    /\ typing_task' = [typing_task EXCEPT ![t] = IF ok THEN "running" ELSE "failed"]
    /\ UNCHANGED <<sessions, chat_locks, locks, pc, chat, lock, session_id, attempt,
                   has_chat, result, new_session_id, fr, sd, th, tx, fs, px>>

\* Variant: a timeout is retried without a session as well.
RetryWithoutSessionOnTimeout(sid, res) ==
    Truthy(sid) /\ (StartsWith(res, ClaudeErrorPrefix) \/ res = TimeoutText)

\* Line 487: if session_id and result.startswith("Claude error").
RetryWithoutSession(sid, res) == Truthy(sid) /\ StartsWith(res, ClaudeErrorPrefix)

\* Variant: the session id of the outcome is not written to the store.
PersistNothing(store, c, sid) == store

\* Lines 492-493: if new_session_id: self.set_session_id(chat_id, new_session_id).
Persist(store, c, sid) ==
    IF Truthy(sid) THEN set_session_id(store, c, sid) ELSE store

\* Variant: the fallback invocation resumes the same session.
FallbackSessionSame(sid) == sid

\* Line 490: the fallback invocation is given no session id.
FallbackSession(sid) == None

\* The read loop of call_claude ends (the lines read, then EOF or the deadline),
\* call_claude returns or raises, and its caller runs on to its next await:
\* call_claude_with_retry either starts the fallback invocation or persists the
\* session id and returns to the handler, which starts send_long_message.
ReadLoop(t, stream, end) ==
    LET out == CallClaude(session_id[t], typing_task[t], stream, end)
        c == chat[t]
    IN
    /\ pc[t] = "read"
    /\ typing_task' = [typing_task EXCEPT ![t] = out.typing]
    /\ IF out.exc
       THEN /\ Raise(t)
            /\ UNCHANGED <<sessions, new_session_id>>
       ELSE IF attempt[t] = 0
       THEN /\ pc' = [pc EXCEPT ![t] = "api_done"]
            /\ result' = [result EXCEPT ![t] = out.result]
            /\ new_session_id' = [new_session_id EXCEPT ![t] = out.sid]
            /\ UNCHANGED <<sessions, locks, lock, session_id, attempt, has_chat>>
       ELSE IF attempt[t] = 1 /\ RetryWithoutSession(session_id[t], out.result)
       THEN /\ sessions' = clear_session(sessions, c)
            /\ session_id' = [session_id EXCEPT ![t] = FallbackSession(@)]
            /\ attempt' = [attempt EXCEPT ![t] = 2]
            /\ pc' = [pc EXCEPT ![t] = "spawn"]
            /\ UNCHANGED <<locks, lock, has_chat, result, new_session_id>>
       ELSE /\ sessions' = Persist(sessions, c, out.sid)
            /\ result' = [result EXCEPT ![t] = out.result]
            /\ pc' = [pc EXCEPT ![t] = "send"]
            /\ session_id' = [session_id EXCEPT ![t] = None]
            /\ attempt' = [attempt EXCEPT ![t] = 0]
            /\ has_chat' = [has_chat EXCEPT ![t] = FALSE]
            /\ UNCHANGED <<locks, lock, new_session_id>>
    /\ UNCHANGED <<chat_locks, chat, fr, sd, th, tx, fs, px>>

\* await send_long_message(update, result) returns or raises; on return the
\* handler ends and async with releases the lock.
SendLongMessage(t, ok) ==
    /\ pc[t] = "send"
    /\ IF ok
       THEN /\ Finish(t)
            /\ locks' = Released(t)
       ELSE /\ Raise(t)
            /\ UNCHANGED <<chat, typing_task, new_session_id>>
    /\ UNCHANGED <<sessions, chat_locks, fr, sd, th, tx, fs, px>>

\* call_claude called directly, outside any handler, with any session id and
\* with or without a chat.
ApiCall(t, sid, withChat) ==
    /\ pc[t] = "idle"
    /\ pc' = [pc EXCEPT ![t] = "spawn"]
    /\ session_id' = [session_id EXCEPT ![t] = sid]
    /\ has_chat' = [has_chat EXCEPT ![t] = withChat]
    /\ UNCHANGED <<sessions, chat_locks, locks, chat, lock, attempt, typing_task,
                   result, new_session_id, fr, sd, th, tx, fs, px>>

\* The direct caller takes the result (or the exception).
ApiReturn(t) ==
    /\ pc[t] \in {"api_done", "api_raised"}
    /\ Finish(t)
    /\ UNCHANGED <<sessions, chat_locks, locks, fr, sd, th, tx, fs, px>>

\* ------------------------------------------------------------ specifications
NoFramer == [state |-> "off"]
NoSend == [state |-> "off"]
NoThrottle == [state |-> "off"]
NoSplit == [state |-> "off"]
NoStore == [state |-> "off"]
NoProcess == [state |-> "off"]

\* The parts that a specification does not use.
OthersOff == th = NoThrottle /\ tx = NoSplit /\ fs = NoStore /\ px = NoProcess

InitBot ==
    /\ sessions \in [Chats -> {None} \cup SessionIds]
    /\ chat_locks = [c \in Chats |-> 0]
    /\ locks = [c \in Chats |-> <<>>]
    /\ pc = [t \in Tasks |-> "idle"]
    /\ chat = [t \in Tasks |-> None]
    /\ lock = [t \in Tasks |-> 0]
    /\ session_id = [t \in Tasks |-> None]
    /\ attempt = [t \in Tasks |-> 0]
    /\ has_chat = [t \in Tasks |-> FALSE]
    /\ typing_task = [t \in Tasks |-> "none"]
    /\ result = [t \in Tasks |-> <<>>]
    /\ new_session_id = [t \in Tasks |-> None]
    /\ calls = <<>>
    /\ observed = <<>>
    /\ reset = [c \in Chats |-> "no"]

Init ==
    /\ InitBot
    /\ fr = NoFramer
    /\ sd = NoSend
    /\ OthersOff

\* A new handler run takes the first free task slot (the slots are alike).
FirstIdle(t) == pc[t] = "idle" /\ \A u \in Tasks : u < t => pc[u] # "idle"

\* The handlers of one bot instance, interleaved at their awaits.
Next ==
    \/ \E t \in Tasks, c \in Chats :
          FirstIdle(t) /\ HandleMessage(t, c) /\ UNCHANGED <<calls, observed, reset>>
    \/ \E t \in Tasks, c \in Chats :
          FirstIdle(t) /\ HandleClaudeCommand(t, c) /\ UNCHANGED <<calls, observed, reset>>
    \/ \E t \in Tasks, c \in Chats :
          FirstIdle(t) /\ HandleDocument(t, c) /\ UNCHANGED <<calls, observed, reset>>
    \/ \E t \in Tasks, c \in Chats :
          FirstIdle(t) /\ HandlePhoto(t, c) /\ UNCHANGED <<calls, observed, reset>>
    \/ \E t \in Tasks, c \in Chats :
          FirstIdle(t) /\ CmdNew(t, c) /\ UNCHANGED <<calls, observed, reset>>
    \/ \E t \in Tasks, c \in Chats :
          FirstIdle(t) /\ CmdReply(t, c) /\ UNCHANGED <<calls, observed, reset>>
    \/ \E t \in Tasks, ok \in BOOLEAN : GetFile(t, ok) /\ UNCHANGED <<calls, observed, reset>>
    \/ \E t \in Tasks, ok \in BOOLEAN : Download(t, ok) /\ UNCHANGED <<calls, observed, reset>>
    \/ \E t \in Tasks, ok \in BOOLEAN : Reply(t, ok) /\ UNCHANGED <<calls, observed, reset>>
    \/ \E t \in Tasks : ErrorHandler(t) /\ UNCHANGED <<calls, observed, reset>>
    \/ \E t \in Tasks, ok \in BOOLEAN : Spawn(t, ok) /\ UNCHANGED <<calls, observed, reset>>
    \/ \E t \in Tasks : SendTypingLoop(t, TRUE) /\ UNCHANGED <<calls, observed, reset>>
    \/ \E t \in Tasks, stream \in ShortStreams, end \in Endings :
          ReadLoop(t, stream, end) /\ UNCHANGED <<calls, observed, reset>>
    \/ \E t \in Tasks, ok \in BOOLEAN : SendLongMessage(t, ok) /\ UNCHANGED <<calls, observed, reset>>

Spec == Init /\ [][Next]_vars

\* The history of /new per conversation: "cleared" once cmd_new has cleared the
\* store, "acked" once its acknowledgement was delivered with no handler accepted
\* on the conversation in between, "no" again when a handler takes the lock.
ResetHistory(t) ==
    /\ reset' = [c \in Chats |->
                    IF pc[t] = "idle" /\ pc'[t] = "reply_new" /\ chat'[t] = c
                    THEN "cleared"
                    ELSE IF pc[t] = "idle" /\ lock'[t] # 0 /\ chat'[t] = c
                    THEN "no"
                    ELSE IF /\ pc[t] = "reply_new" /\ pc'[t] = "idle"
                            /\ chat[t] = c /\ reset[c] = "cleared"
                    THEN "acked"
                    ELSE reset[c]]
    /\ UNCHANGED <<calls, observed>>

\* The handlers of Next, with the history of /new recorded.
NextReset ==
    \/ \E t \in Tasks, c \in Chats :
          FirstIdle(t) /\ HandleMessage(t, c) /\ ResetHistory(t)
    \/ \E t \in Tasks, c \in Chats :
          FirstIdle(t) /\ HandleClaudeCommand(t, c) /\ ResetHistory(t)
    \/ \E t \in Tasks, c \in Chats :
          FirstIdle(t) /\ HandleDocument(t, c) /\ ResetHistory(t)
    \/ \E t \in Tasks, c \in Chats :
          FirstIdle(t) /\ HandlePhoto(t, c) /\ ResetHistory(t)
    \/ \E t \in Tasks, c \in Chats :
          FirstIdle(t) /\ CmdNew(t, c) /\ ResetHistory(t)
    \/ \E t \in Tasks, c \in Chats :
          FirstIdle(t) /\ CmdReply(t, c) /\ ResetHistory(t)
    \/ \E t \in Tasks, ok \in BOOLEAN : GetFile(t, ok) /\ ResetHistory(t)
    \/ \E t \in Tasks, ok \in BOOLEAN : Download(t, ok) /\ ResetHistory(t)
    \/ \E t \in Tasks, ok \in BOOLEAN : Reply(t, ok) /\ ResetHistory(t)
    \/ \E t \in Tasks : ErrorHandler(t) /\ ResetHistory(t)
    \/ \E t \in Tasks, ok \in BOOLEAN : Spawn(t, ok) /\ ResetHistory(t)
    \/ \E t \in Tasks : SendTypingLoop(t, TRUE) /\ ResetHistory(t)
    \/ \E t \in Tasks, stream \in ShortStreams, end \in Endings :
          ReadLoop(t, stream, end) /\ ResetHistory(t)
    \/ \E t \in Tasks, ok \in BOOLEAN : SendLongMessage(t, ok) /\ ResetHistory(t)

SpecReset == Init /\ [][NextReset]_vars


\* What the histories keep of one invocation: its session_id argument and the
\* outcome of call_claude.
CallRecord(t, stream, end) ==
    LET out == CallClaude(session_id[t], typing_task[t], stream, end) IN
    [arg |-> session_id[t], kind |-> Kind(out), how |-> out.how, rc |-> out.rc,
     exc |-> out.exc, result |-> out.result, sid |-> out.sid]

\* One handler run at a time invokes the agent (task 1) while the handlers that
\* take no lock (cmd_new, cmd_session, cmd_start) run beside it on the other
\* tasks; calls records the invocations of the controller run.
NextRetry ==
    \/ \E c \in Chats : HandleMessage(1, c) /\ calls' = <<>> /\ UNCHANGED <<observed, reset>>
    \/ \E c \in Chats : HandleClaudeCommand(1, c) /\ calls' = <<>> /\ UNCHANGED <<observed, reset>>
    \/ \E c \in Chats : HandleDocument(1, c) /\ calls' = <<>> /\ UNCHANGED <<observed, reset>>
    \/ \E c \in Chats : HandlePhoto(1, c) /\ calls' = <<>> /\ UNCHANGED <<observed, reset>>
    \/ \E t \in Tasks, c \in Chats : CmdNew(t, c) /\ UNCHANGED <<calls, observed, reset>>
    \/ \E t \in Tasks, c \in Chats : CmdReply(t, c) /\ UNCHANGED <<calls, observed, reset>>
    \/ \E ok \in BOOLEAN : GetFile(1, ok) /\ UNCHANGED <<calls, observed, reset>>
    \/ \E ok \in BOOLEAN : Download(1, ok) /\ UNCHANGED <<calls, observed, reset>>
    \/ \E t \in Tasks, ok \in BOOLEAN : Reply(t, ok) /\ UNCHANGED <<calls, observed, reset>>
    \/ \E t \in Tasks :
          /\ ErrorHandler(t)
          /\ calls' = IF t = 1 THEN <<>> ELSE calls
          /\ UNCHANGED <<observed, reset>>
    \/ \E ok \in BOOLEAN : Spawn(1, ok) /\ UNCHANGED <<calls, observed, reset>>
    \/ \E ok \in BOOLEAN : SendTypingLoop(1, ok) /\ UNCHANGED <<calls, observed, reset>>
    \/ \E stream \in ShortStreams, end \in Endings :
          /\ ReadLoop(1, stream, end)
          /\ calls' = Append(calls, CallRecord(1, stream, end))
          /\ UNCHANGED <<observed, reset>>
    \/ \E ok \in BOOLEAN :
          /\ SendLongMessage(1, ok)
          /\ calls' = IF ok THEN <<>> ELSE calls
          /\ UNCHANGED <<observed, reset>>

SpecRetry == Init /\ [][NextRetry]_vars

\* Every stream of at most MaxLines lines.
AllStreams == UNION {[1..n -> Lines] : n \in 0..MaxLines}

\* One direct call of call_claude at a time, with any argument and any stream;
\* observed records the lines read and calls the outcome.
NextInvoke ==
    \/ \E sid \in {None} \cup SessionIds, withChat \in BOOLEAN :
          ApiCall(1, sid, withChat) /\ UNCHANGED <<calls, observed, reset>>
    \/ \E ok \in BOOLEAN : Spawn(1, ok) /\ UNCHANGED <<calls, observed, reset>>
    \/ \E ok \in BOOLEAN : SendTypingLoop(1, ok) /\ UNCHANGED <<calls, observed, reset>>
    \/ /\ pc[1] = "read"
       /\ \E stream \in AllStreams, end \in Endings :
             /\ ReadLoop(1, stream, end)
             /\ calls' = <<CallRecord(1, stream, end)>>
             /\ observed' = stream
             /\ UNCHANGED reset
    \/ ApiReturn(1) /\ calls' = <<>> /\ observed' = <<>> /\ UNCHANGED reset

InitInvoke ==
    /\ Init
    /\ sessions = [c \in Chats |-> None]

SpecInvoke == InitInvoke /\ [][NextInvoke]_vars

\* ------------------------------------------------------------ line framing
\* The bytes of the process's output: a newline, a space (whitespace that
\* strip() removes) and any other byte.
Bytes == {"nl", "sp", "x"}

\* Every output of at most MaxStream bytes.
ByteStreams == UNION {[1..n -> Bytes] : n \in 0..MaxStream}

\* b"\n" in buf
HasNewline(buf) == \E i \in 1..Len(buf) : buf[i] = "nl"

\* bool(buf.strip())
StripNonEmpty(buf) == \E i \in 1..Len(buf) : buf[i] \notin {"nl", "sp"}

\* buf.split(b"\n", 1): the bytes before the first newline, and those after it.
SplitOnce(buf) ==
    LET i == CHOOSE k \in 1..Len(buf) :
                 buf[k] = "nl" /\ \A j \in 1..(k - 1) : buf[j] # "nl"
    IN  <<SubSeq(buf, 1, i - 1), SubSeq(buf, i + 1, Len(buf))>>

\* Variant: one line is taken from the buffer after a read (if, not while).
DrainBufferOnce(buf, handed) ==
    IF ~HasNewline(buf) THEN [buf |-> buf, lines |-> handed]
    ELSE [buf |-> SplitOnce(buf)[2], lines |-> Append(handed, SplitOnce(buf)[1])]

\* while b"\n" in buf: raw_line, buf = buf.split(b"\n", 1); _process_line(raw_line)
RECURSIVE DrainBuffer(_, _)
DrainBuffer(buf, handed) ==
    IF ~HasNewline(buf) THEN [buf |-> buf, lines |-> handed]
    ELSE DrainBuffer(SplitOnce(buf)[2], Append(handed, SplitOnce(buf)[1]))

\* One read returns the next n bytes (n at most MaxRead, and at least one):
\* they are added to the buffer, and its complete lines are handed over.
FramerRead(n) ==
    /\ fr.state = "reading"
    /\ fr.pos + n <= Len(fr.stream)
    /\ LET chunk == SubSeq(fr.stream, fr.pos + 1, fr.pos + n)
           d == DrainBuffer(fr.buf \o chunk, fr.lines)
       IN  fr' = [fr EXCEPT !.pos = @ + n, !.buf = d.buf, !.lines = d.lines]
    /\ UNCHANGED <<sessions, chat_locks, locks, taskVars, calls, observed, reset, sd, th, tx, fs, px>>

\* A read returns no bytes (EOF): what is left in the buffer is handed over if
\* strip() leaves something of it.
FramerEof ==
    /\ fr.state = "reading"
    /\ fr.pos = Len(fr.stream)
    /\ fr' = [fr EXCEPT !.state = "eof",
                        !.lines = IF StripNonEmpty(fr.buf) THEN Append(@, fr.buf) ELSE @]
    /\ UNCHANGED <<sessions, chat_locks, locks, taskVars, calls, observed, reset, sd, th, tx, fs, px>>

InitFramer ==
    /\ InitBot
    /\ sessions = [c \in Chats |-> None]
    /\ sd = NoSend
    /\ OthersOff
    /\ \E stream \in ByteStreams :
          fr = [state |-> "reading", stream |-> stream, pos |-> 0, buf |-> <<>>,
                lines |-> <<>>]

NextFramer ==
    \/ \E n \in 1..MaxRead : FramerRead(n)
    \/ FramerEof

SpecFramer == InitFramer /\ [][NextFramer]_vars

\* ---------------------------------------------------------------- delivery
\* How one reply_text call ends: it returns, or raises telegram.error.TimedOut,
\* another telegram.error.NetworkError, or an exception of another class.
SendOutcomes == {"ok", "TimedOut", "NetworkError", "Other"}

\* isinstance(e, TimedOut); TimedOut is a subclass of NetworkError.
IsTimedOut(e) == e = "TimedOut"

\* isinstance(e, NetworkError)
IsNetworkError(e) == e \in {"NetworkError", "TimedOut"}

NETWORK_RETRY_DELAYS == <<2, 5, 10>>

\* enumerate([0] + list(retries))
RetrySchedule == <<0>> \o NETWORK_RETRY_DELAYS

\* Variant: no attempt is repeated.
RetryOnNetworkErrorOnce(tries, outcome, retry_timeout) ==
    IF outcome = "ok" THEN "return" ELSE "raise"

\* _retry_on_network_error after its attempt number tries + 1 ended in outcome:
\* it returns the result, raises the error, or goes on to the next attempt.
RetryOnNetworkError(tries, outcome, retry_timeout) ==
    IF outcome = "ok" THEN "return"
    ELSE IF IsTimedOut(outcome) /\ ~retry_timeout THEN "raise"
    ELSE IF IsTimedOut(outcome) \/ IsNetworkError(outcome)
         THEN IF tries + 1 < Len(RetrySchedule) THEN "again" ELSE "raise"
    ELSE "raise"

\* send_long_message goes on to the next chunk, or returns after the last.
NextChunk ==
    IF sd.left = 1
    THEN [sd EXCEPT !.state = "done", !.left = 0]
    ELSE [sd EXCEPT !.left = @ - 1, !.mode = "html", !.tries = 0, !.slept = <<>>,
                    !.log = <<>>]

\* One reply_text call of send_long_message ends in outcome.  The chunk is in
\* mode "html" (styled, under _retry_on_network_error), "plain" (plain text,
\* under _retry_on_network_error, after a NetworkError of the styled send) or
\* "fallback" (one plain reply_text, after another exception of the styled send).
\* log lists the calls made for the chunk, slept the delays of the retry loop.
SendAttempt(outcome) ==
    LET did == [sd EXCEPT !.log = Append(@, [mode |-> sd.mode, outcome |-> outcome])]
        next == RetryOnNetworkError(sd.tries, outcome, FALSE)
        again == [did EXCEPT !.tries = @ + 1,
                             !.slept = Append(@, RetrySchedule[sd.tries + 2])]
    IN
    /\ sd.state = "sending"
    /\ sd' =
         CASE sd.mode = "fallback" ->
                IF outcome = "ok" THEN [did EXCEPT !.state = NextChunk.state,
                                                   !.left = NextChunk.left,
                                                   !.mode = NextChunk.mode,
                                                   !.tries = NextChunk.tries,
                                                   !.slept = NextChunk.slept,
                                                   !.log = NextChunk.log]
                ELSE [did EXCEPT !.state = "raised", !.error = outcome]
           [] next = "return" ->
                [did EXCEPT !.state = NextChunk.state, !.left = NextChunk.left,
                            !.mode = NextChunk.mode, !.tries = NextChunk.tries,
                            !.slept = NextChunk.slept, !.log = NextChunk.log]
           [] next = "again" -> again
           [] OTHER ->
                IF sd.mode = "html"
                THEN IF IsNetworkError(outcome)
                     THEN [did EXCEPT !.mode = "plain", !.tries = 0, !.slept = <<>>]
                     ELSE [did EXCEPT !.mode = "fallback", !.tries = 0, !.slept = <<>>]
                ELSE IF IsNetworkError(outcome)
                     THEN [did EXCEPT !.state = "raised", !.error = "resend"]
                     ELSE [did EXCEPT !.state = "raised", !.error = outcome]
    /\ UNCHANGED <<sessions, chat_locks, locks, taskVars, calls, observed, reset, fr, th, tx, fs, px>>

InitSend ==
    /\ InitBot
    /\ sessions = [c \in Chats |-> None]
    /\ fr = NoFramer
    /\ OthersOff
    /\ \E n \in 1..MaxChunks :
          sd = [state |-> "sending", left |-> n, mode |-> "html", tries |-> 0,
                slept |-> <<>>, log |-> <<>>, error |-> None]

NextSend == \E outcome \in SendOutcomes : SendAttempt(outcome)

SpecSend == InitSend /\ [][NextSend]_vars

\* ---------------------------------------------------------- status notices
STATUS_THROTTLE_SECS == 8

\* Variant: no throttle.
ThrottleOpenAlways(now, last) == TRUE

\* Line 397: now - last_status_time >= STATUS_THROTTLE_SECS.
ThrottleOpen(now, last) == now - last >= STATUS_THROTTLE_SECS

\* time.monotonic() advances (while the read loop or send_message is awaited).
Tick ==
    /\ th.state \in {"line", "sending"}
    /\ th.clock < MaxClock
    /\ th' = [th EXCEPT !.clock = @ + 1]
    /\ UNCHANGED <<sessions, chat_locks, locks, taskVars, calls, observed, reset, fr, sd, tx, fs, px>>

\* _process_line meets the next tool_use block of an assistant record: with
\* verbose and a chat, and the throttle open, it builds the notice and calls
\* chat.send_message; else the block gets no notice.
ToolUse ==
    /\ th.state = "line"
    /\ th.block < MaxBlocks
    /\ IF th.verbose /\ th.chat /\ ThrottleOpen(th.clock, th.last_status_time)
       THEN th' = [th EXCEPT !.state = "sending", !.block = @ + 1, !.now = th.clock]
       ELSE th' = [th EXCEPT !.block = @ + 1, !.dropped = @ \cup {th.block + 1}]
    /\ UNCHANGED <<sessions, chat_locks, locks, taskVars, calls, observed, reset, fr, sd, tx, fs, px>>

\* await chat.send_message(status) returns, and last_status_time = now; or it
\* raises, and the exception is swallowed.  emitted lists the notices sent, each
\* with the monotonic time at which send_message was called for it.
SendMessage(ok) ==
    /\ th.state = "sending"
    /\ th' = [th EXCEPT !.state = "line",
                        !.last_status_time = IF ok THEN th.now ELSE @,
                        !.emitted = IF ok
                                    THEN Append(@, [time |-> th.now, block |-> th.block])
                                    ELSE @]
    /\ UNCHANGED <<sessions, chat_locks, locks, taskVars, calls, observed, reset, fr, sd, tx, fs, px>>

\* The stream ends: the invocation is over.
EndOfStream ==
    /\ th.state = "line"
    /\ th' = [th EXCEPT !.state = "done"]
    /\ UNCHANGED <<sessions, chat_locks, locks, taskVars, calls, observed, reset, fr, sd, tx, fs, px>>

InitThrottle ==
    /\ InitBot
    /\ sessions = [c \in Chats |-> None]
    /\ fr = NoFramer /\ sd = NoSend
    /\ tx = NoSplit /\ fs = NoStore /\ px = NoProcess
    /\ \E start \in 0..STATUS_THROTTLE_SECS, verbose \in BOOLEAN, withChat \in BOOLEAN :
          th = [state |-> "line", clock |-> start, last_status_time |-> 0,
                now |-> 0, block |-> 0, verbose |-> verbose, chat |-> withChat,
                dropped |-> {}, emitted |-> <<>>]

NextThrottle ==
    \/ Tick
    \/ ToolUse
    \/ \E ok \in BOOLEAN : SendMessage(ok)
    \/ EndOfStream

SpecThrottle == InitThrottle /\ [][NextThrottle]_vars

\* ------------------------------------------------- chunking and rendering
\* The characters of a text: a letter, a space, a newline, an ampersand.
Chars == {"x", "sp", "nl", "amp"}

Texts == UNION {[1..n -> Chars] : n \in 0..MaxText}

\* c.strip() is not empty.
NonBlank(c) == \E i \in 1..Len(c) : c[i] \notin {"sp", "nl"}

\* s.rfind(sep, 0, end): the highest 0-based index at which sep lies within
\* s[0:end], or -1.
RFind(s, sep, end) ==
    LET hits == {i \in 0..(end - Len(sep)) :
                    /\ i + Len(sep) <= Len(s)
                    /\ SubSeq(s, i + 1, i + Len(sep)) = sep}
    IN  IF hits = {} THEN -1 ELSE CHOOSE i \in hits : \A j \in hits : j <= i

\* Lines 195-200: split_at for a remaining text longer than MAX_MSG_LEN.
SplitAt(remaining) ==
    IF RFind(remaining, <<"nl", "nl">>, MAX_MSG_LEN) > 0
    THEN RFind(remaining, <<"nl", "nl">>, MAX_MSG_LEN) + 2
    ELSE IF RFind(remaining, <<"nl">>, MAX_MSG_LEN) > 0
    THEN RFind(remaining, <<"nl">>, MAX_MSG_LEN) + 1
    ELSE IF RFind(remaining, <<"sp">>, MAX_MSG_LEN) > 0
    THEN RFind(remaining, <<"sp">>, MAX_MSG_LEN) + 1
    ELSE MAX_MSG_LEN

\* The while loop of _split_text.
RECURSIVE SplitLoop(_, _)
SplitLoop(remaining, chunks) ==
    IF remaining = <<>> THEN chunks
    ELSE IF Len(remaining) <= MAX_MSG_LEN THEN Append(chunks, remaining)
    ELSE SplitLoop(SubSeq(remaining, SplitAt(remaining) + 1, Len(remaining)),
                   Append(chunks, SubSeq(remaining, 1, SplitAt(remaining))))

\* _split_text
split_text(text) ==
    IF Len(text) <= MAX_MSG_LEN THEN <<text>>
    ELSE SelectSeq(SplitLoop(text, <<>>), NonBlank)

\* html.escape of one character.
EscapeChar(ch) == IF ch = "amp" THEN <<"amp", "a", "m", "p", "semi">> ELSE <<ch>>

\* markdown_to_telegram_html for a text of Chars: no code, table or markup is
\* in it, so the rendering is step 4, html.escape.
RECURSIVE markdown_to_telegram_html(_)
markdown_to_telegram_html(text) ==
    IF text = <<>> THEN <<>>
    ELSE EscapeChar(Head(text)) \o markdown_to_telegram_html(Tail(text))

\* send_long_message computes _split_text(text).
SplitText ==
    /\ tx.state = "start"
    /\ tx' = [tx EXCEPT !.state = "render",
                        !.pieces = IF Len(tx.text) <= MAX_MSG_LEN THEN <<tx.text>>
                                   ELSE SplitLoop(tx.text, <<>>),
                        !.chunks = split_text(tx.text)]
    /\ UNCHANGED <<sessions, chat_locks, locks, taskVars, calls, observed, reset, fr, sd, th, fs, px>>

\* send_long_message renders the next chunk and hands it to reply_text.
RenderChunk ==
    /\ tx.state = "render"
    /\ Len(tx.rendered) < Len(tx.chunks)
    /\ tx' = [tx EXCEPT !.rendered =
                 Append(@, markdown_to_telegram_html(tx.chunks[Len(tx.rendered) + 1]))]
    /\ UNCHANGED <<sessions, chat_locks, locks, taskVars, calls, observed, reset, fr, sd, th, fs, px>>

\* send_long_message returns after the last chunk.
SendReturn ==
    /\ tx.state = "render"
    /\ Len(tx.rendered) = Len(tx.chunks)
    /\ tx' = [tx EXCEPT !.state = "done"]
    /\ UNCHANGED <<sessions, chat_locks, locks, taskVars, calls, observed, reset, fr, sd, th, fs, px>>

InitSplit ==
    /\ InitBot
    /\ sessions = [c \in Chats |-> None]
    /\ fr = NoFramer /\ sd = NoSend
    /\ th = NoThrottle /\ fs = NoStore /\ px = NoProcess
    /\ \E text \in Texts :
          tx = [state |-> "start", text |-> text, pieces |-> <<>>, chunks |-> <<>>,
                rendered |-> <<>>]

NextSplit ==
    \/ SplitText
    \/ RenderChunk
    \/ SendReturn

SpecSplit == InitSplit /\ [][NextSplit]_vars

\* ------------------------------------------------------- the sessions file
\* What a file holds:
\*   absent       there is no such file
\*   map          a JSON object, conversation id -> session id, written whole
\*   partial      the beginning of a JSON text: a write that did not finish
\*   notjson      text that json.loads rejects with JSONDecodeError
\*   nonmap       valid JSON that is no object (a list, a string, a number, null)
\*   undecodable  bytes that read_text cannot decode (UnicodeDecodeError)
EmptyMap == [c \in Chats |-> None]

Content(kind, map) == [kind |-> kind, map |-> map]

Maps == [Chats -> {None} \cup SessionIds]

FileContents ==
    {Content("map", m) : m \in Maps} \cup
    {Content(k, EmptyMap) : k \in {"absent", "partial", "notjson", "nonmap", "undecodable"}}

\* The operations on the store.
StoreOps ==
    [op : {"get_session_id", "clear_session"}, chat : Chats, sid : {None}] \cup
    [op : {"set_session_id"}, chat : Chats, sid : SessionIds]

\* load_sessions on a file content: what it returns, or that it raises.  The
\* except clause catches json.JSONDecodeError and OSError only.
load_sessions(content) ==
    CASE content.kind = "absent" -> [raised |-> FALSE, value |-> Content("map", EmptyMap)]
      [] content.kind = "map" -> [raised |-> FALSE, value |-> content]
      [] content.kind \in {"partial", "notjson"} ->
            [raised |-> FALSE, value |-> Content("map", EmptyMap)]
      [] content.kind = "nonmap" -> [raised |-> FALSE, value |-> content]
      [] OTHER -> [raised |-> TRUE, value |-> content]

\* Variant: the temporary file is the sessions file itself.
with_suffix_same(file) == file

\* self.sessions_file.with_suffix(".tmp")
with_suffix(file) == "tmp"

\* A store operation starts: load_sessions, then the use of what it returned
\* (.get, item assignment, .pop), which raises on a value that is no dict.
StoreCall(o) ==
    LET loaded == load_sessions(fs.files["canon"])
        m == loaded.value.map
        c == o.chat
    IN
    /\ fs.state = "idle"
    /\ IF loaded.raised \/ loaded.value.kind # "map"
       THEN fs' = [fs EXCEPT !.state = "raised", !.op = o,
                             !.before = fs.files["canon"], !.after = fs.files["canon"]]
       ELSE IF o.op = "get_session_id"
       THEN fs' = [fs EXCEPT !.state = "returned", !.op = o, !.value = m[c],
                             !.before = fs.files["canon"], !.after = fs.files["canon"]]
       ELSE fs' = [fs EXCEPT !.state = "save", !.op = o,
                             !.before = fs.files["canon"],
                             !.after = Content("map",
                                          IF o.op = "set_session_id"
                                          THEN set_session_id(m, c, o.sid)
                                          ELSE clear_session(m, c))]
    /\ UNCHANGED <<sessions, chat_locks, locks, taskVars, calls, observed, reset, fr, sd, th, tx, px>>

\* save_sessions: tmp.write_text opens the temporary file, truncating it.
OpenTmp ==
    /\ fs.state = "save"
    /\ fs' = [fs EXCEPT !.state = "write",
                        !.files[with_suffix("canon")] = Content("partial", EmptyMap)]
    /\ UNCHANGED <<sessions, chat_locks, locks, taskVars, calls, observed, reset, fr, sd, th, tx, px>>

\* tmp.write_text has written the whole JSON text and closed the file.
WriteTmp ==
    /\ fs.state = "write"
    /\ fs' = [fs EXCEPT !.state = "rename", !.files[with_suffix("canon")] = fs.after]
    /\ UNCHANGED <<sessions, chat_locks, locks, taskVars, calls, observed, reset, fr, sd, th, tx, px>>

\* tmp.rename(self.sessions_file): the temporary file replaces the sessions
\* file in one step, and the operation returns.
Rename ==
    /\ fs.state = "rename"
    /\ fs' = [fs EXCEPT !.state = "returned",
                        !.files = IF with_suffix("canon") = "canon" THEN @
                                  ELSE [canon |-> @[with_suffix("canon")],
                                        tmp |-> Content("absent", EmptyMap)]]
    /\ UNCHANGED <<sessions, chat_locks, locks, taskVars, calls, observed, reset, fr, sd, th, tx, px>>

\* The program crashes in the middle of a store operation.
Crash ==
    /\ fs.state \in {"save", "write", "rename"}
    /\ fs' = [fs EXCEPT !.state = "crashed"]
    /\ UNCHANGED <<sessions, chat_locks, locks, taskVars, calls, observed, reset, fr, sd, th, tx, px>>

\* The operation is over (or the program is started again): the files stay.
StoreIdle ==
    /\ fs.state \in {"returned", "raised", "crashed"}
    /\ fs' = [fs EXCEPT !.state = "idle"]
    /\ UNCHANGED <<sessions, chat_locks, locks, taskVars, calls, observed, reset, fr, sd, th, tx, px>>

InitStore ==
    /\ InitBot
    /\ sessions = [c \in Chats |-> None]
    /\ fr = NoFramer /\ sd = NoSend
    /\ th = NoThrottle /\ tx = NoSplit /\ px = NoProcess
    /\ \E content \in FileContents :
          fs = [state |-> "idle",
                files |-> [canon |-> content, tmp |-> Content("absent", EmptyMap)],
                op |-> [op |-> "get_session_id", chat |-> "A", sid |-> None],
                value |-> None, before |-> content, after |-> content]

NextStore ==
    \/ \E o \in StoreOps : StoreCall(o)
    \/ OpenTmp
    \/ WriteTmp
    \/ Rename
    \/ Crash
    \/ StoreIdle

SpecStore == InitStore /\ [][NextStore]_vars

\* --------------------------------------------------- process and deadline
\* px: where call_claude is suspended (state), the monotonic clock (now), the
\* deadline, the agent process (proc: "running" or "exited"), its stdout (out:
\* "open" or "closed"), whether bytes wait to be read (pending), and whether
\* call_claude killed the process (killed).

\* Lines 417-424 and 426-436: proc.kill(), then await proc.communicate().
Killed == [px EXCEPT !.state = "communicate", !.proc = "exited", !.out = "closed",
                     !.pending = FALSE, !.killed = TRUE]

\* Line 417: remaining = deadline - time.monotonic(), at the top of the loop.
Remaining == px.deadline - px.now

\* time.monotonic() advances.
TickNow ==
    /\ px.state \in {"read", "communicate", "wait"}
    /\ px.now < MaxNow
    /\ px' = [px EXCEPT !.now = @ + 1]
    /\ UNCHANGED <<sessions, chat_locks, locks, taskVars, calls, observed, reset, fr, sd, th, tx, fs>>

\* The process writes to its stdout.
ProcWrite ==
    /\ px.proc = "running" /\ px.out = "open" /\ ~px.pending
    /\ px' = [px EXCEPT !.pending = TRUE]
    /\ UNCHANGED <<sessions, chat_locks, locks, taskVars, calls, observed, reset, fr, sd, th, tx, fs>>

\* The process closes its stdout and keeps running.
ProcClose ==
    /\ px.proc = "running" /\ px.out = "open"
    /\ px' = [px EXCEPT !.out = "closed"]
    /\ UNCHANGED <<sessions, chat_locks, locks, taskVars, calls, observed, reset, fr, sd, th, tx, fs>>

\* The process exits (its stdout is closed with it).
ProcExit ==
    /\ px.proc = "running"
    /\ px' = [px EXCEPT !.proc = "exited", !.out = "closed"]
    /\ UNCHANGED <<sessions, chat_locks, locks, taskVars, calls, observed, reset, fr, sd, th, tx, fs>>

\* wait_for(proc.stdout.read(...)) returns a chunk: its lines are processed and
\* the loop starts over, where an expired deadline kills the process.
ReadChunk ==
    /\ px.state = "read" /\ px.pending
    /\ px' = IF Remaining <= 0 THEN Killed ELSE [px EXCEPT !.pending = FALSE]
    /\ UNCHANGED <<sessions, chat_locks, locks, taskVars, calls, observed, reset, fr, sd, th, tx, fs>>

\* wait_for returns a chunk with a line on which _process_line raises (bytes
\* that are not UTF-8, a JSON value that is not an object): the exception leaves
\* the loop, the finally block stops the heartbeat, and call_claude raises.
\* Nothing on this path touches the process.
LineRaises ==
    /\ px.state = "read" /\ px.pending
    /\ px' = [px EXCEPT !.state = "raised", !.pending = FALSE, !.outcome = "raise"]
    /\ UNCHANGED <<sessions, chat_locks, locks, taskVars, calls, observed, reset, fr, sd, th, tx, fs>>

\* The read returns no bytes (EOF): break, then await proc.wait().
ReadEof ==
    /\ px.state = "read" /\ ~px.pending /\ px.out = "closed"
    /\ px' = [px EXCEPT !.state = "wait"]
    /\ UNCHANGED <<sessions, chat_locks, locks, taskVars, calls, observed, reset, fr, sd, th, tx, fs>>

\* wait_for raises asyncio.TimeoutError when the remaining time has passed.
ReadTimeout ==
    /\ px.state = "read" /\ Remaining <= 0
    /\ px' = Killed
    /\ UNCHANGED <<sessions, chat_locks, locks, taskVars, calls, observed, reset, fr, sd, th, tx, fs>>

\* await proc.communicate() returns once the killed process is gone, and
\* call_claude returns the timeout outcome.
Communicate ==
    /\ px.state = "communicate" /\ px.proc = "exited"
    /\ px' = [px EXCEPT !.state = "returned", !.outcome = "timeout"]
    /\ UNCHANGED <<sessions, chat_locks, locks, taskVars, calls, observed, reset, fr, sd, th, tx, fs>>

\* await proc.wait() returns once the process has exited, and call_claude
\* returns the outcome of the exit code.
ProcWait ==
    /\ px.state = "wait" /\ px.proc = "exited"
    /\ px' = [px EXCEPT !.state = "returned", !.outcome = "exit"]
    /\ UNCHANGED <<sessions, chat_locks, locks, taskVars, calls, observed, reset, fr, sd, th, tx, fs>>

InitDeadline ==
    /\ InitBot
    /\ sessions = [c \in Chats |-> None]
    /\ fr = NoFramer /\ sd = NoSend
    /\ th = NoThrottle /\ tx = NoSplit /\ fs = NoStore
    /\ \E claude_timeout \in 1..(MaxNow - 1) :
          px = [state |-> "read", now |-> 0, deadline |-> claude_timeout,
                proc |-> "running", out |-> "open", pending |-> FALSE,
                killed |-> FALSE, outcome |-> None]

NextDeadline ==
    \/ TickNow
    \/ ProcWrite
    \/ ProcClose
    \/ ProcExit
    \/ ReadChunk
    \/ LineRaises
    \/ ReadEof
    \/ ReadTimeout
    \/ Communicate
    \/ ProcWait

\* The event loop runs every coroutine that can run, and time passes; the
\* process is free to do nothing.
SpecDeadline ==
    /\ InitDeadline
    /\ [][NextDeadline]_vars
    /\ WF_vars(TickNow)
    /\ WF_vars(ReadChunk)
    /\ WF_vars(ReadEof)
    /\ WF_vars(ReadTimeout)
    /\ WF_vars(Communicate)
    /\ WF_vars(ProcWait)

\* ------------------------------------------------------------------ claims
Last(seq) == seq[Len(seq)]

\* call_claude_with_retry is in flight for the handler run t.
InFlight(t) == pc[t] \in {"spawn", "read"}

\* A read loop of task 1 ends in this step (SpecRetry records it in calls).
Ended == pc[1] = "read" /\ Len(calls') = Len(calls) + 1

\* C1: for every conversation at most one call_claude_with_retry, and so at most
\* one agent process, is in flight at any time, whatever handlers interleave.
C1_OneInFlightPerChat ==
    \A c \in Chats : Cardinality({t \in Tasks : chat[t] = c /\ InFlight(t)}) <= 1

\* C1: an update of a conversation is answered "still processing" while an
\* invocation of that conversation reads its process.
C1_Witness ==
    \E t, u \in Tasks :
        /\ t # u /\ chat[t] = chat[u]
        /\ pc[t] = "read" /\ pc[u] = "reply_busy"

\* C2: a first invocation with a stored session id that ends in an agent error
\* makes the controller clear the stored id and start one more invocation with
\* no session id; the second invocation is never followed by a third.
C2_OneFallbackWithoutSession ==
    [][/\ (Ended /\ attempt[1] = 1 /\ Truthy(session_id[1])
              /\ Last(calls').kind = "error")
          => /\ pc'[1] = "spawn" /\ attempt'[1] = 2
             /\ session_id'[1] = None
             /\ sessions'[chat[1]] = None
       /\ (Ended /\ attempt[1] = 2) => pc'[1] \in {"send", "error_handler"}
       /\ Len(calls') <= 2]_vars

\* C2: the fallback invocation ended in an agent error too, and the controller
\* returned.
C2_Witness ==
    /\ pc[1] = "send" /\ Len(calls) = 2
    /\ calls[1].kind = "error" /\ Truthy(calls[1].arg)
    /\ calls[2].kind = "error" /\ calls[2].arg = None

\* C3: when the first invocation used a stored session id and ended in an agent
\* error, then as call_claude_with_retry returns the stored session id is the
\* one the fallback invocation returned, and there is no record when it
\* returned none.
C3_StoreAfterFallback ==
    [][(Ended /\ attempt[1] = 2 /\ pc'[1] = "send"
           /\ calls'[1].kind = "error" /\ Truthy(calls'[1].arg))
       => IF Truthy(calls'[2].sid)
          THEN sessions'[chat[1]] = calls'[2].sid
          ELSE sessions'[chat[1]] = None]_vars

\* C3: a fallback that returned a session id other than the one first used.
C3_Witness ==
    /\ pc[1] = "send" /\ Len(calls) = 2
    /\ calls[1].kind = "error" /\ Truthy(calls[1].arg)
    /\ Truthy(calls[2].sid) /\ calls[2].sid # calls[1].arg
    /\ sessions[chat[1]] = calls[2].sid

\* C4: a second invocation is made only after a first invocation that used a
\* stored session id and exited with a non-zero code; after a success (zero
\* exit with result text) there is none, and the stored id is not cleared.
C4_FallbackOnlyAfterAgentError ==
    (attempt[1] = 2 /\ calls # <<>>)
    => (calls[1].kind = "error" /\ Truthy(calls[1].arg))

\* C5: a first invocation that ends in a timeout or an empty response is
\* returned as it is: no second invocation, and the stored id is not cleared.
C5_TimeoutAndEmptyNotRetried ==
    [][(Ended /\ attempt[1] = 1 /\ Last(calls').kind \in {"timeout", "empty"})
       => /\ pc'[1] = "send"
          /\ result'[1] = Last(calls').result
          /\ result'[1] \in {TimeoutText, EmptyText}
          /\ Len(calls') = 1
          /\ Truthy(sessions[chat[1]]) => Truthy(sessions'[chat[1]])]_vars

\* C5: a timeout of an invocation that resumed a stored session was returned.
C5_Witness ==
    /\ pc[1] = "send" /\ Len(calls) = 1
    /\ calls[1].kind = "timeout" /\ Truthy(calls[1].arg)
    /\ result[1] = TimeoutText

\* C6: when call_claude_with_retry returns a timeout outcome, the stored session
\* id of the conversation is what it was just before the outcome was produced.
C6_TimeoutLeavesStore ==
    [][(Ended /\ Last(calls').kind = "timeout" /\ pc'[1] = "send")
       => sessions'[chat[1]] = sessions[chat[1]]]_vars

\* The session_id of the last record of lines that has one, else dflt.
LastSid(lines, dflt) ==
    LET has == {i \in 1..Len(lines) :
                   lines[i].line = "record" /\ lines[i].sid # NoField}
    IN  IF has = {} THEN dflt
        ELSE lines[CHOOSE i \in has : \A j \in has : j <= i].sid

\* The result text of the last result record of lines, else the empty text.
LastResult(lines) ==
    LET has == {i \in 1..Len(lines) :
                   lines[i].line = "record" /\ lines[i].type = "result"}
    IN  IF has = {} THEN <<>>
        ELSE lines[CHOOSE i \in has : \A j \in has : j <= i].result

\* What C8 says call_claude returns after lines and an exit code rc.
EofOutcome(arg, lines, rc) ==
    IF rc # 0 THEN [result |-> ErrorText, sid |-> arg]
    ELSE [result |-> IF LastResult(lines) = <<>> THEN EmptyText ELSE LastResult(lines),
          sid |-> LastSid(lines, arg)]

\* C8: when the stream reached EOF, call_claude returns, and what it returns is
\* decided by the exit code and the records read.
C8_EofOutcome ==
    (calls # <<>> /\ calls[1].how = "eof")
    => /\ pc[1] = "api_done"
       /\ result[1] = EofOutcome(calls[1].arg, observed, calls[1].rc).result
       /\ new_session_id[1] = EofOutcome(calls[1].arg, observed, calls[1].rc).sid

\* C8, for the invocations whose heartbeat did not fail: the same.
C8_EofOutcomeWhenReturned ==
    (calls # <<>> /\ calls[1].how = "eof" /\ pc[1] = "api_done")
    => /\ result[1] = EofOutcome(calls[1].arg, observed, calls[1].rc).result
       /\ new_session_id[1] = EofOutcome(calls[1].arg, observed, calls[1].rc).sid

\* C9: the heartbeat task is started only when a chat was given, and once
\* call_claude has returned or raised the task is over (cancelled and awaited),
\* so that it emits nothing afterwards.
C9_HeartbeatStopped ==
    [][\A t \in Tasks :
          /\ (typing_task[t] = "none" /\ typing_task'[t] # "none") => has_chat[t]
          /\ (pc[t] = "read" /\ pc'[t] # "read")
             => typing_task'[t] \in {"none", "done"}
          /\ (pc[t] # "read" /\ typing_task[t] \in {"none", "done"})
             => typing_task'[t] \in {"none", "done"} \/ pc'[t] = "read"]_vars

\* C9: an invocation with a heartbeat ran into its deadline and returned.
C9_Witness ==
    /\ pc[1] = "api_done" /\ typing_task[1] = "done"
    /\ calls # <<>> /\ calls[1].kind = "timeout"

\* C7: after a reply_text call for a chunk has timed out, send_long_message
\* makes no other call for that chunk, styled or plain, and raises the error
\* that tells the user to resend.
C7_NoAttemptAfterTimeout ==
    \A i \in 1..Len(sd.log) :
        sd.log[i].outcome = "TimedOut"
        => /\ i = Len(sd.log)
           /\ sd.state = "raised" /\ sd.error = "resend"

\* The positions of the newlines of a byte stream.
NewlinesOf(s) == {i \in 1..Len(s) : s[i] = "nl"}

\* The k-th smallest member of a set of numbers.
KthOf(S, k) == CHOOSE i \in S : Cardinality({j \in S : j <= i}) = k

\* The lines of s that a newline ends, in order.
TerminatedLines(s) ==
    [k \in 1..Cardinality(NewlinesOf(s)) |->
        SubSeq(s,
               IF k = 1 THEN 1 ELSE KthOf(NewlinesOf(s), k - 1) + 1,
               KthOf(NewlinesOf(s), k) - 1)]

\* What follows the last newline of s.
Unterminated(s) ==
    IF NewlinesOf(s) = {} THEN s
    ELSE SubSeq(s, KthOf(NewlinesOf(s), Cardinality(NewlinesOf(s))) + 1, Len(s))

C11_NoLineAborts ==
    calls # <<>>
    => /\ calls[1].how # "raise"
       /\ (calls[1].how = "eof" /\ ~calls[1].exc)
          => /\ result[1] = EofOutcome(calls[1].arg, observed, calls[1].rc).result
             /\ new_session_id[1] = EofOutcome(calls[1].arg, observed, calls[1].rc).sid

\* C12: with status reporting on, any two notices emitted in one invocation are
\* at least STATUS_THROTTLE_SECS apart on the monotonic clock, and a block whose
\* notice the throttle suppressed never gets a notice later.
C12_NoticesThrottled ==
    th.state # "off"
    => /\ \A i, j \in 1..Len(th.emitted) :
             i < j => th.emitted[j].time - th.emitted[i].time >= STATUS_THROTTLE_SECS
       /\ \A i \in 1..Len(th.emitted) : th.emitted[i].block \notin th.dropped
       /\ \A i, j \in 1..Len(th.emitted) :
             i < j => th.emitted[i].block < th.emitted[j].block

\* C12: two notices were emitted and the block between them was suppressed.
C12_Witness ==
    /\ Len(th.emitted) = 2
    /\ th.emitted[1].block = 1 /\ th.emitted[2].block = 3
    /\ 2 \in th.dropped

\* C13: an update that arrives for a conversation whose lock is held is answered
\* "still processing" without taking or awaiting the lock, and its handler run
\* then only ends: it starts no invocation and changes no stored session id.
C13_BusyMessageDropped ==
    [][\A t \in Tasks :
          /\ (/\ pc[t] = "idle" /\ pc'[t] \in {"spawn", "get_file", "reply_busy"}
              /\ \E u \in Tasks : u # t /\ lock[u] # 0 /\ chat[u] = chat'[t])
             => pc'[t] = "reply_busy" /\ lock'[t] = 0 /\ sessions' = sessions
          /\ pc[t] = "reply_busy"
             => /\ pc'[t] \in {"reply_busy", "idle", "error_handler"}
                /\ lock'[t] = 0
                /\ pc'[t] # "reply_busy" => sessions' = sessions
          /\ (pc[t] = "error_handler" /\ pc'[t] # "error_handler")
             => pc'[t] = "idle" /\ sessions' = sessions]_vars

\* C13: the invocation in flight has returned while the "still processing"
\* reply of a later update of the same conversation is still being sent.
C13_Witness ==
    \E t, u \in Tasks :
        /\ t # u /\ chat[t] = chat[u]
        /\ pc[t] = "send" /\ pc[u] = "reply_busy"

\* C14: conversations do not interfere: an update of a conversation whose own
\* lock is free is never answered "still processing", whatever runs for other
\* conversations; its invocation resumes the session stored for its own
\* conversation; and the stored session id of a conversation changes only in a
\* step of a handler run of that conversation.
C14_ConversationsIndependent ==
    [][/\ \A t \in Tasks :
             /\ (/\ pc[t] = "idle" /\ pc'[t] \in {"spawn", "get_file", "reply_busy"}
                 /\ ~\E u \in Tasks : u # t /\ lock[u] # 0 /\ chat[u] = chat'[t])
                => pc'[t] # "reply_busy" /\ lock'[t] # 0
             /\ (pc[t] # "spawn" /\ pc'[t] = "spawn" /\ attempt'[t] = 1)
                => session_id'[t] = sessions[chat'[t]]
       /\ \A c \in Chats :
             sessions'[c] # sessions[c]
             => \E t \in Tasks : chat'[t] = c /\ pc'[t] # pc[t]]_vars

\* C14: invocations of two different conversations are in flight together.
C14_Witness ==
    \E t, u \in Tasks :
        /\ chat[t] # chat[u]
        /\ pc[t] = "read" /\ pc[u] = "read"

\* The concatenation of a sequence of texts.
RECURSIVE Concat(_)
Concat(seqs) == IF seqs = <<>> THEN <<>> ELSE Head(seqs) \o Concat(Tail(seqs))

\* A text without its whitespace.
Unspaced(text) == SelectSeq(text, LAMBDA ch : ch \notin {"sp", "nl"})

\* The 0-based positions at which sep lies within the first MAX_MSG_LEN
\* characters of rem.
BreaksWithinLimit(rem, sep) ==
    {i \in 0..(MAX_MSG_LEN - Len(sep)) :
        i + Len(sep) <= Len(rem) /\ SubSeq(rem, i + 1, i + Len(sep)) = sep}

\* The greatest member of a non-empty set of numbers.
MaxOf(S) == CHOOSE i \in S : \A j \in S : j <= i

\* Where C15 has the split of rem: after the last paragraph break within the
\* limit, else after the last line break, else after the last space, else at
\* the limit.
SplitByPriority(rem) ==
    IF BreaksWithinLimit(rem, <<"nl", "nl">>) # {}
    THEN MaxOf(BreaksWithinLimit(rem, <<"nl", "nl">>)) + 2
    ELSE IF BreaksWithinLimit(rem, <<"nl">>) # {}
    THEN MaxOf(BreaksWithinLimit(rem, <<"nl">>)) + 1
    ELSE IF BreaksWithinLimit(rem, <<"sp">>) # {}
    THEN MaxOf(BreaksWithinLimit(rem, <<"sp">>)) + 1
    ELSE MAX_MSG_LEN

\* What is left of the text when the k-th piece is cut.
RemainingAt(k) ==
    SubSeq(tx.text, Len(Concat(SubSeq(tx.pieces, 1, k - 1))) + 1, Len(tx.text))

\* C15: for a text longer than MAX_MSG_LEN, _split_text returns chunks of at
\* most MAX_MSG_LEN characters whose concatenation is the text up to whitespace,
\* and each split is made at the last paragraph break within the limit, else the
\* last line break, else the last space, else at the limit.
C15_SplitAtLastBreak ==
    (tx.state \in {"render", "done"} /\ Len(tx.text) > MAX_MSG_LEN)
    => /\ \A i \in 1..Len(tx.chunks) :
             Len(tx.chunks[i]) >= 1 /\ Len(tx.chunks[i]) <= MAX_MSG_LEN
       /\ Unspaced(Concat(tx.chunks)) = Unspaced(tx.text)
       /\ \A k \in 1..Len(tx.pieces) :
             Len(RemainingAt(k)) > MAX_MSG_LEN
             => Len(tx.pieces[k]) = SplitByPriority(RemainingAt(k))

\* C16: every chunk that send_long_message hands to reply_text as styled
\* output, after markdown_to_telegram_html rendered it, is at most MAX_MSG_LEN
\* characters long.
C16_RenderedWithinLimit ==
    tx.state # "off" =>
    \A i \in 1..Len(tx.rendered) : Len(tx.rendered[i]) <= MAX_MSG_LEN

\* C17: at every step of set_session_id and clear_session, a crash included,
\* the sessions file holds the whole content it had before the operation or the
\* whole map the operation writes, never a partly written one.
C17_AtomicPersistence ==
    fs.state # "off"
    => /\ fs.files["canon"] \in {fs.before, fs.after}
       /\ fs.before.kind # "partial" => fs.files["canon"].kind # "partial"

\* C17: a crash while the temporary file was partly written.
C17_Witness ==
    /\ fs.state = "crashed"
    /\ fs.files["tmp"].kind = "partial"
    /\ fs.before.kind = "map" /\ fs.after # fs.before
    /\ fs.files["canon"] = fs.before

\* C18: when the sessions file exists and does not hold a map, get_session_id,
\* set_session_id and clear_session do not raise: the content is read as an
\* empty map, so get_session_id returns no session id.
C18_CorruptStoreDegrades ==
    (fs.state # "off" /\ fs.before.kind \in {"partial", "notjson", "nonmap", "undecodable"})
    => /\ fs.state # "raised"
       /\ (fs.state = "returned" /\ fs.op.op = "get_session_id") => fs.value = None

\* C19: once the deadline of an invocation has passed, call_claude returns (a
\* line that makes it raise ends it as well),
\* whatever the process does (never writes, never closes its output, or closes
\* its output and never exits).
C19_ReturnsAfterDeadline ==
    (px.state # "off" /\ px.now >= px.deadline) ~> (px.state \in {"returned", "raised"})

\* C20: no handler run leaves its async with lock block by an exception: a
\* failure of the invocation (spawning, streaming, timeout, non-zero exit) comes
\* back as the outcome string of call_claude_with_retry.
C20_NoExceptionAcrossLock ==
    [][\A t \in Tasks :
          (pc[t] # "error_handler" /\ pc'[t] = "error_handler") => lock[t] = 0]_vars

\* The attempts that one call of _retry_on_network_error (the styled one, mode
\* "html", or the plain-text one, mode "plain") made for the current chunk.
AttemptsIn(mode) == SelectSeq(sd.log, LAMBDA e : e.mode = mode)

\* C21: a call of _retry_on_network_error makes at most four attempts; every
\* attempt but its last failed with a transient network error; the waits before
\* the second, third and fourth attempt are 2, 5 and 10 seconds in that order;
\* and it gives up on a transient network error only after the fourth attempt.
C21_RetryBoundedAndOrdered ==
    sd.state # "off"
    => \A mode \in {"html", "plain"} :
          LET made == AttemptsIn(mode) IN
          /\ Len(made) <= 4
          /\ \A i \in 1..(Len(made) - 1) : made[i].outcome = "NetworkError"
          /\ (sd.state = "sending" /\ sd.mode = mode)
             => /\ \A i \in 1..Len(made) : made[i].outcome = "NetworkError"
                /\ Len(made) <= 3
                /\ sd.slept = SubSeq(<<2, 5, 10>>, 1, Len(made))
          /\ (/\ made # <<>> /\ made[Len(made)].outcome = "NetworkError"
              /\ (sd.state = "raised" \/ sd.mode # mode))
             => Len(made) = 4

\* C21: the plain-text delivery failed four times with a transient network
\* error, after waits of 2, 5 and 10 seconds, and the error was raised.
C21_Witness ==
    /\ sd.state = "raised" /\ sd.mode = "plain"
    /\ Len(AttemptsIn("plain")) = 4
    /\ \A i \in 1..4 : AttemptsIn("plain")[i].outcome = "NetworkError"
    /\ sd.slept = <<2, 5, 10>>

\* C22: after a /new of a conversation was acknowledged, the next handler
\* accepted on that conversation starts its invocation with no session id (no
\* --resume), whatever was in flight when the reset arrived.
C22_ResetStartsFresh ==
    [][\A t \in Tasks :
          (/\ pc[t] = "idle" /\ pc'[t] = "spawn"
           /\ reset[chat'[t]] = "acked")
          => session_id'[t] = None]_vars

\* C23: the session id of an invocation's outcome is in the store when
\* call_claude_with_retry hands the result to send_long_message, before any
\* delivery attempt, and a delivery that fails leaves the store as it is.
C23_PersistBeforeDelivery ==
    [][/\ (Ended /\ pc'[1] = "send" /\ Truthy(Last(calls').sid))
          => sessions'[chat[1]] = Last(calls').sid
       /\ (pc[1] = "send" /\ pc'[1] # "send") => sessions' = sessions]_vars

\* C23: delivery of the result failed after an invocation that returned a
\* session id other than the one it was given; the store holds that id.
C23_Witness ==
    /\ pc[1] = "error_handler" /\ calls # <<>>
    /\ ~Last(calls).exc
    /\ Truthy(Last(calls).sid) /\ Last(calls).sid # Last(calls).arg
    /\ sessions[chat[1]] = Last(calls).sid

\* C24: when call_claude has finished, by returning an outcome or by raising,
\* the process it spawned is not running any more.
C24_NoOrphanProcess ==
    px.state \in {"returned", "raised"} => px.proc = "exited"

\* The positions of a handler run inside its async with lock block.
InBlock(p) == p \in {"get_file", "download", "spawn", "read", "send"}

\* C25: the lock of a conversation is held only while a handler run of that
\* conversation is inside its lock block, however earlier runs ended (return,
\* or an exception from download, invocation or delivery); so an update is
\* answered "still processing" only while such a run is in progress.
C25_LockReleasedOnExit ==
    [][/\ \A c \in Chats :
             (chat_locks'[c] # 0 /\ locks'[c][chat_locks'[c]])
             => \E t \in Tasks : chat'[t] = c /\ InBlock(pc'[t])
       /\ \A t \in Tasks :
             (pc[t] = "idle" /\ pc'[t] = "reply_busy")
             => \E u \in Tasks : u # t /\ chat[u] = chat'[t] /\ InBlock(pc[u])]_vars

\* C25: a handler run of a conversation left its lock block by an exception,
\* and the next update of that conversation was accepted.
C25_Witness ==
    \E t, u \in Tasks :
        /\ t # u /\ chat[t] = chat[u]
        /\ pc[t] = "error_handler"
        /\ InBlock(pc[u]) /\ lock[u] # 0

\* C26: an invocation whose heartbeat task failed (the sink rejected the
\* "typing" action) and whose lines raised nothing returns its outcome: the
\* heartbeat's error does not reach the caller of call_claude.
C26_HeartbeatFailureHarmless ==
    [][(/\ pc[1] = "read" /\ typing_task[1] = "failed"
        /\ pc'[1] # "read" /\ calls'[1].how # "raise")
       => (pc'[1] = "api_done" /\ ~calls'[1].exc)]_vars

\* The conversation of the handler run t that takes a step.
ActingChat(t) == IF chat[t] # None THEN chat[t] ELSE chat'[t]

\* C27: a step of a handler run changes the stored session id of no
\* conversation but its own, whatever handler runs of other conversations are
\* suspended around it: a set_session_id or clear_session of one conversation
\* neither loses nor overwrites the record of another.
C27_OtherRecordsUnchanged ==
    [][\A t \in Tasks :
          pc'[t] # pc[t]
          => \A c \in Chats : c # ActingChat(t) => sessions'[c] = sessions[c]]_vars

\* C27: the record of one conversation was just written by its invocation while
\* a /new of another conversation has just cleared that one's record.
C27_Witness ==
    \E t, u \in Tasks :
        /\ chat[t] # None /\ chat[u] # None /\ chat[t] # chat[u]
        /\ pc[t] = "send" /\ sessions[chat[t]] # None
        /\ pc[u] = "reply_new" /\ sessions[chat[u]] = None

====
